---------------------------- MODULE Spec2Model ----------------------------
(*
  A state-machine model of smile_client.SmileClient (src/smile_client/smile_client.py):
  handler resolution, the connect / consume / reconnect loop of start_consuming,
  the lifecycle callbacks, the signal handler and _disconnect.

  Granularity.  start_consuming is one asyncio coroutine.  The positions of the
  loop (pc) are its await points ("connecting", "subscribing", "receive", "ack",
  "unsubscribing", "closing") and the synchronous stretches between them.  The
  lifecycle callbacks run on the same event loop, so they interleave with the
  loop at its positions; the signal handler may run between any two steps.
  Evaluating the while condition (line 161) and entering connect (line 162) is
  one step: there is no await between them.

  The broker library (nats) is the environment: whether an await succeeds or
  raises, when a message arrives, when a feed ends and when a callback is called
  are nondeterministic.
*)
EXTENDS Naturals, Sequences, FiniteSets, TLC

VARIABLES
    pc,            \* position of start_consuming
    stop_event,    \* self._stop_event (asyncio.Event), TRUE when set
    handler_path,  \* self.handler_path, the CALLBACK setting
    subject,       \* argument subject of start_consuming
    start_date,    \* argument start_date of start_consuming
    callback,      \* local callback of start_consuming (the resolved handler)
    nc,            \* self.nc
    sub,           \* self.sub
    conns,         \* every connection begun by connect, in order
    deliveries,    \* every message taken from the feed, in order
    disc,          \* what _disconnect did
    raised,        \* the exception that left start_consuming, or the entry
                   \* point's error for its date argument; "none" if none
    resolutions,   \* number of get_handler calls
    entry,         \* the caller of start_consuming: "cli", "django", or "api"
    date_arg       \* the start-date string given to the entry point

vars == << pc, stop_event, handler_path, subject, start_date, callback, nc, sub,
           conns, deliveries, disc, raised, resolutions, entry, date_arg >>

---------------------------------------------------------------------------
(* Bounds of the model *)

MaxMsgs == 2

MaxConnects == 2

---------------------------------------------------------------------------
(* Handles: self.nc / self.sub are never assigned in __init__ (lines 19-45),
   so before the first successful connect the attributes do not exist. *)

Unset == [kind |-> "unset", id |-> 0]

NoneHandle == [kind |-> "None", id |-> 0]

Handle(i) == [kind |-> "handle", id |-> i]

\* Python truthiness of a handle object (if self.sub: / if self.nc:)
Truthy(h) == h.kind = "handle"

---------------------------------------------------------------------------
(* get_handler: the importable modules of the process and their attributes *)

ModulePaths == { <<"smile_client", "default_callback">>, <<"app", "handlers">> }

\* getattr(module, name): the attribute and whether it is callable; ok = FALSE
\* stands for AttributeError
GetAttr(module, name) ==
    CASE module = <<"smile_client", "default_callback">> /\ name = "smile_callback"
            -> [ok |-> TRUE, callable |-> TRUE, handler |-> "smile_callback"]
      [] module = <<"smile_client", "default_callback">> /\ name = "logger"
            -> [ok |-> TRUE, callable |-> FALSE, handler |-> "none"]
      [] module = <<"app", "handlers">> /\ name = "strict"
            -> [ok |-> TRUE, callable |-> TRUE, handler |-> "strict"]
      [] module = <<"app", "handlers">> /\ name = "VERSION"
            -> [ok |-> TRUE, callable |-> FALSE, handler |-> "none"]
      [] OTHER
            -> [ok |-> FALSE, callable |-> FALSE, handler |-> "none"]

\* handler references tried: a dotted path is the sequence of its components
HandlerPaths ==
    { <<"smile_client", "default_callback", "smile_callback">>,
      <<"app", "handlers", "strict">>,
      <<"pkg", "mod", "missing_fn">>,
      <<"app", "handlers", "absent">>,
      <<"app", "handlers", "VERSION">>,
      <<"nodots">> }

\* handler_path.rsplit('.', 1)
RSplit(path) ==
    IF Len(path) >= 2
      THEN << SubSeq(path, 1, Len(path) - 1), path[Len(path)] >>
      ELSE << path >>

Resolved(h) == [ok |-> TRUE, handler |-> h, error |-> "none"]

ResolveError(e) == [ok |-> FALSE, handler |-> "none", error |-> e]

\* a get_handler that returns whatever attribute it finds
get_handler_unchecked(path) ==
    LET parts == RSplit(path)
    IN  IF Len(parts) # 2 THEN ResolveError("ValueError")
        ELSE IF parts[1] \notin ModulePaths THEN ResolveError("ValueError")
        ELSE LET a == GetAttr(parts[1], parts[2])
             IN  IF ~a.ok THEN ResolveError("ValueError")
                 ELSE Resolved(IF a.callable THEN a.handler ELSE "not_callable")

get_handler(path) ==
    LET parts == RSplit(path)
    IN  IF Len(parts) # 2
          THEN ResolveError("ValueError")          \* unpacking fails
        ELSE IF parts[1] \notin ModulePaths
          THEN ResolveError("ValueError")          \* ImportError, line 59-60
        ELSE LET a == GetAttr(parts[1], parts[2])
             IN  IF ~a.ok
                   THEN ResolveError("ValueError") \* AttributeError, line 59-60
                 ELSE IF ~a.callable
                   THEN ResolveError("ValueError") \* line 55-56
                 ELSE Resolved(a.handler)

---------------------------------------------------------------------------
(* Messages: payloads, decoding and the handlers' behaviour *)

Payloads == { "obj_ok", "obj_poison", "not_json", "bad_utf8" }

\* message.data.decode(): bytes that are not UTF-8 raise UnicodeDecodeError
Decode(p) ==
    IF p = "bad_utf8" THEN [ok |-> FALSE, text |-> "none"]
    ELSE [ok |-> TRUE,
          text |-> CASE p = "obj_ok" -> "{\"id\": 1}"
                     [] p = "obj_poison" -> "{\"poison\": true}"
                     [] OTHER -> "not json"]

\* json.loads(text): the decoded object, or JSONDecodeError
JsonLoads(text) ==
    CASE text = "{\"id\": 1}" -> [ok |-> TRUE, data |-> "id=1"]
      [] text = "{\"poison\": true}" -> [ok |-> TRUE, data |-> "poison=true"]
      [] OTHER -> [ok |-> FALSE, data |-> "none"]

WellFormed(p) == Decode(p).ok /\ JsonLoads(Decode(p).text).ok

\* the handler called on a SmileMessage: TRUE when it returns, FALSE when it raises
HandlerReturns(h, data) ==
    CASE h = "smile_callback" -> TRUE
      [] h = "strict" -> data # "poison=true"
      [] OTHER -> FALSE

\* wrapped_callback(message): what happened, and whether the handler was called
wrapped_callback(h, p) ==
    LET d == Decode(p)
    IN  IF ~d.ok
          THEN [result |-> "error_logged", calls |-> 0, data |-> "none"]
        ELSE LET j == JsonLoads(d.text)
             IN  IF ~j.ok
                   THEN [result |-> "invalid_json", calls |-> 0, data |-> "none"]
                 ELSE IF HandlerReturns(h, j.data)
                   THEN [result |-> "returned", calls |-> 1, data |-> j.data]
                 ELSE [result |-> "handler_raised", calls |-> 1, data |-> j.data]

---------------------------------------------------------------------------
(* connect: the consumer configuration *)

\* a datetime value, and None
DateTime(y, m, d, tz) ==
    [kind |-> "datetime", year |-> y, month |-> m, day |-> d, hour |-> 0,
     minute |-> 0, second |-> 0, microsecond |-> 0, tzinfo |-> tz]

NoneDate ==
    [kind |-> "None", year |-> 0, month |-> 0, day |-> 0, hour |-> 0,
     minute |-> 0, second |-> 0, microsecond |-> 0, tzinfo |-> "none"]

StartDates == { NoneDate, DateTime(2024, 1, 1, "utc") }

Subjects == { "orders.created" }

Durable == "durable-1"

FilterSubject == "orders.created"

NoCfg == [filter_subject |-> "none", ack_policy |-> "none",
          deliver_policy |-> "none", opt_start_time |-> NoneDate]

\* if start_time: -- a datetime object is always truthy, None is not
StartTimeGiven(start_time) == start_time.kind # "None"

\* a configuration that ignores the start time
ConsumerCfgAlwaysNew(start_time) ==
    [filter_subject |-> FilterSubject, ack_policy |-> "explicit",
     deliver_policy |-> "new", opt_start_time |-> NoneDate]

ConsumerCfg(start_time) ==
    IF StartTimeGiven(start_time)
      THEN [filter_subject |-> FilterSubject, ack_policy |-> "explicit",
            deliver_policy |-> "by_start_time", opt_start_time |-> start_time]
      ELSE [filter_subject |-> FilterSubject, ack_policy |-> "explicit",
            deliver_policy |-> "new", opt_start_time |-> NoneDate]

NewConn == [subject |-> subject, start_time |-> start_date, durable |-> Durable,
            status |-> "connecting", sub |-> "none", cfg |-> NoCfg,
            dropKind |-> "none", closedCb |-> "none",
            flagAtStart |-> stop_event, handlerAtStart |-> callback]

NoDisc == [calls |-> 0, subHeld |-> FALSE, ncHeld |-> FALSE,
           unsub |-> "none", close |-> "none", logged |-> 0,
           unsubs |-> 0, closes |-> 0]

ConnIds == 1 .. Len(conns)

\* the connection of the running connect call or of the handles held
LatestConn == IF conns = << >> THEN {} ELSE { Len(conns) }

Running == pc \notin { "entry", "idle", "done", "raised" }

---------------------------------------------------------------------------
(* the entry points: parse_start_date *)

\* A date string is the sequence of its parts between the "-" separators;
\* a part that is all digits carries its length and its value, any other
\* part (letters, empty, sign, blank) is non-numeric.
Num(digits, value) == [numeric |-> TRUE, digits |-> digits, value |-> value]

Word == [numeric |-> FALSE, digits |-> 0, value |-> 0]

Str(parts) == [given |-> TRUE, parts |-> parts]

\* the option is absent: date_str is None
NoDateArg == [given |-> FALSE, parts |-> << >>]

\* ""
EmptyStr == Str(<< >>)

DateArgs ==
    { NoDateArg,
      EmptyStr,
      Str(<< Num(4, 2024), Num(2, 1), Num(2, 1) >>),      \* "2024-01-01"
      Str(<< Num(4, 2024), Num(2, 2), Num(2, 29) >>),     \* "2024-02-29"
      Str(<< Num(4, 2023), Num(2, 2), Num(2, 29) >>),     \* "2023-02-29"
      Str(<< Num(4, 2024), Num(2, 13), Num(2, 1) >>),     \* "2024-13-01"
      Str(<< Num(4, 2024), Num(2, 4), Num(2, 31) >>),     \* "2024-04-31"
      Str(<< Num(4, 2024), Num(2, 0), Num(2, 10) >>),     \* "2024-00-10"
      Str(<< Num(4, 2024), Num(1, 1), Num(1, 5) >>),      \* "2024-1-5"
      Str(<< Num(2, 24), Num(2, 1), Num(2, 1) >>),        \* "24-01-01"
      Str(<< Num(4, 0), Num(2, 1), Num(2, 1) >>),         \* "0000-01-01"
      Str(<< Num(2, 1), Num(2, 1), Num(4, 2024) >>),      \* "01-01-2024"
      Str(<< Num(4, 2024), Num(2, 1) >>),                 \* "2024-01"
      Str(<< Num(4, 2024), Num(2, 1), Num(2, 1), Num(2, 7) >>), \* "2024-01-01-07"
      Str(<< Num(8, 20240101) >>),                        \* "20240101"
      Str(<< Word >>),                                    \* "yesterday"
      Str(<< Num(4, 2024), Word, Num(2, 1) >>) }          \* "2024-Jan-01"

IsLeap(y) == (y % 4 = 0 /\ y % 100 # 0) \/ y % 400 = 0

DaysInMonth(y, m) ==
    IF m = 2 THEN (IF IsLeap(y) THEN 29 ELSE 28)
    ELSE IF m \in { 4, 6, 9, 11 } THEN 30
    ELSE 31

\* datetime.strptime(date_str, "%Y-%m-%d"): %Y is exactly four digits, %m and
\* %d are one or two digits in 1..12 and 1..31, nothing may follow; the
\* datetime constructor then requires year >= 1 and a day the month has.
Strptime(parts) ==
    IF /\ Len(parts) = 3
       /\ \A i \in 1..3 : parts[i].numeric
       /\ parts[1].digits = 4
       /\ parts[2].digits \in { 1, 2 } /\ parts[2].value \in 1..12
       /\ parts[3].digits \in { 1, 2 } /\ parts[3].value \in 1..31
       /\ parts[1].value >= 1
       /\ parts[3].value <= DaysInMonth(parts[1].value, parts[2].value)
      THEN [ok |-> TRUE,
            value |-> DateTime(parts[1].value, parts[2].value, parts[3].value,
                               "none")]
      ELSE [ok |-> FALSE, value |-> NoneDate]

\* if not date_str: return None
\* try: return datetime.strptime(date_str, "%Y-%m-%d").replace(tzinfo=utc)
\* except ValueError: raise ...("Invalid date format ... Use YYYY-MM-DD")
parse_start_date(date_str) ==
    IF ~date_str.given \/ date_str.parts = << >>
      THEN [ok |-> TRUE, value |-> NoneDate]
      ELSE LET t == Strptime(date_str.parts)
           IN  IF t.ok
                 THEN [ok |-> TRUE, value |-> [t.value EXCEPT !.tzinfo = "utc"]]
                 ELSE [ok |-> FALSE, value |-> NoneDate]

\* what the entry point raises for an unparsable date: cli.parse_start_date
\* raises ValueError; the command raises CommandError, which handle wraps
\* again in CommandError("Failed to start consumer: ...")
InvalidDateError(e) ==
    IF e = "cli" THEN "ValueError: Invalid date format"
    ELSE "CommandError: Failed to start consumer: Invalid date format"

---------------------------------------------------------------------------
Init ==
    /\ pc = "idle"
    /\ stop_event = FALSE
    /\ handler_path \in HandlerPaths
    /\ subject \in Subjects
    /\ start_date \in StartDates
    /\ callback = "none"
    /\ nc = Unset
    /\ sub = Unset
    /\ conns = << >>
    /\ deliveries = << >>
    /\ disc = NoDisc
    /\ raised = "none"
    /\ resolutions = 0
    /\ entry = "api"
    /\ date_arg = NoDateArg

---------------------------------------------------------------------------
(* start_consuming *)

\* line 146: self._setup_signal_handlers()
Start ==
    /\ pc = "idle"
    /\ pc' = "resolve"
    /\ UNCHANGED << stop_event, handler_path, subject, start_date, callback, nc,
                    sub, conns, deliveries, disc, raised, resolutions >>
    /\ UNCHANGED << entry, date_arg >>

\* line 148: callback = self.get_handler(self.handler_path)
Resolve ==
    /\ pc = "resolve"
    /\ resolutions' = resolutions + 1
    /\ LET r == get_handler(handler_path)
       IN  IF r.ok
             THEN /\ callback' = r.handler
                  /\ pc' = "loop"
                  /\ raised' = raised
             ELSE /\ callback' = callback
                  /\ pc' = "raised"
                  /\ raised' = r.error
    /\ UNCHANGED << stop_event, handler_path, subject, start_date, nc, sub,
                    conns, deliveries, disc >>
    /\ UNCHANGED << entry, date_arg >>

\* a loop that never polls the flag
LoopConditionAlways == TRUE

\* line 161: while not self._stop_event.is_set()
LoopCondition == ~stop_event

\* a _disconnect whose try block does not cover the attribute lookup
DisconnectEnterRaising ==
    IF sub.kind = "unset"
      THEN /\ disc' = [disc EXCEPT !.calls = @ + 1]
           /\ pc' = "raised"
    ELSE IF Truthy(sub)
      THEN /\ disc' = [disc EXCEPT !.calls = @ + 1, !.subHeld = TRUE,
                                   !.ncHeld = Truthy(nc), !.unsubs = @ + 1]
           /\ pc' = "unsubscribing"
    ELSE IF Truthy(nc)
      THEN /\ disc' = [disc EXCEPT !.calls = @ + 1, !.ncHeld = TRUE,
                                   !.unsub = "skipped", !.closes = @ + 1]
           /\ pc' = "closing"
    ELSE /\ disc' = [disc EXCEPT !.calls = @ + 1, !.unsub = "skipped",
                                 !.close = "skipped"]
         /\ pc' = "done"

\* _disconnect up to its first await (lines 107-109, 113-114, 118-119)
DisconnectEnter ==
    IF sub.kind = "unset"
      THEN \* self.sub does not exist: AttributeError, caught at line 118
           /\ disc' = [disc EXCEPT !.calls = @ + 1, !.logged = @ + 1]
           /\ pc' = "done"
    ELSE IF Truthy(sub)
      THEN /\ disc' = [disc EXCEPT !.calls = @ + 1, !.subHeld = TRUE,
                                   !.ncHeld = Truthy(nc), !.unsubs = @ + 1]
           /\ pc' = "unsubscribing"
    ELSE IF Truthy(nc)
      THEN /\ disc' = [disc EXCEPT !.calls = @ + 1, !.ncHeld = TRUE,
                                   !.unsub = "skipped", !.closes = @ + 1]
           /\ pc' = "closing"
    ELSE /\ disc' = [disc EXCEPT !.calls = @ + 1, !.unsub = "skipped",
                                 !.close = "skipped"]
         /\ pc' = "done"

\* lines 161-162 and 169-170: poll the flag; enter connect, or leave the loop
\* and enter _disconnect
LoopCheck ==
    /\ pc = "loop"
    /\ IF LoopCondition
         THEN /\ Len(conns) < MaxConnects
              /\ conns' = Append(conns, NewConn)
              /\ pc' = "connecting"
              /\ disc' = disc
         ELSE /\ DisconnectEnter
              /\ conns' = conns
    /\ UNCHANGED << stop_event, handler_path, subject, start_date, callback, nc,
                    sub, deliveries, raised, resolutions >>
    /\ UNCHANGED << entry, date_arg >>

\* a connect whose failure sends the loop round again
ConnectEstablishRetry ==
    /\ pc = "connecting"
    /\ \E ok \in BOOLEAN :
         IF ok
           THEN /\ conns' = [conns EXCEPT ![Len(conns)].status = "connected",
                                          ![Len(conns)].cfg = ConsumerCfg(start_date)]
                /\ pc' = "subscribing"
           ELSE /\ conns' = [conns EXCEPT ![Len(conns)].status = "failed"]
                /\ pc' = "loop"
    /\ UNCHANGED << stop_event, handler_path, subject, start_date, callback, nc,
                    sub, deliveries, disc, raised, resolutions >>
    /\ UNCHANGED << entry, date_arg >>

\* line 83: nc = await nats.connect(**options), and lines 102-104
ConnectEstablish ==
    /\ pc = "connecting"
    /\ \E ok \in BOOLEAN :
         IF ok
           THEN /\ conns' = [conns EXCEPT ![Len(conns)].status = "connected",
                                          ![Len(conns)].cfg = ConsumerCfg(start_date)]
                /\ pc' = "subscribing"
                /\ raised' = raised
           ELSE /\ conns' = [conns EXCEPT ![Len(conns)].status = "failed"]
                /\ pc' = "raised"
                /\ raised' = "ConnectError"
    /\ UNCHANGED << stop_event, handler_path, subject, start_date, callback, nc,
                    sub, deliveries, disc, resolutions >>
    /\ UNCHANGED << entry, date_arg >>

\* a connect that stores the connection on the client before subscribing
SubscribeRecordsEarly ==
    /\ pc = "subscribing"
    /\ \E ok \in BOOLEAN :
         IF ok
           THEN /\ conns' = [conns EXCEPT ![Len(conns)].sub =
                                IF @ = "none" THEN "active" ELSE @]
                /\ nc' = Handle(Len(conns))
                /\ sub' = Handle(Len(conns))
                /\ pc' = "receive"
                /\ raised' = raised
           ELSE /\ conns' = [conns EXCEPT ![Len(conns)].sub = "failed"]
                /\ nc' = Handle(Len(conns))
                /\ pc' = "raised"
                /\ raised' = "ConnectError"
                /\ UNCHANGED sub
    /\ UNCHANGED << stop_event, handler_path, subject, start_date, callback,
                    deliveries, disc, resolutions >>
    /\ UNCHANGED << entry, date_arg >>

\* line 99: sub = await js.subscribe(...); line 101 and line 162: the handles
\* are recorded only when connect returns
Subscribe ==
    /\ pc = "subscribing"
    /\ \E ok \in BOOLEAN :
         IF ok
           THEN /\ conns' = [conns EXCEPT ![Len(conns)].sub =
                                IF @ = "none" THEN "active" ELSE @]
                /\ nc' = Handle(Len(conns))
                /\ sub' = Handle(Len(conns))
                /\ pc' = "receive"
                /\ raised' = raised
           ELSE /\ conns' = [conns EXCEPT ![Len(conns)].sub = "failed"]
                /\ pc' = "raised"
                /\ raised' = "ConnectError"
                /\ UNCHANGED << nc, sub >>
    /\ UNCHANGED << stop_event, handler_path, subject, start_date, callback,
                    deliveries, disc, resolutions >>
    /\ UNCHANGED << entry, date_arg >>

NewDelivery(p) == [payload |-> p, result |-> "pending",
                   calls |-> 0, handler |-> "none", ack |-> "none"]

\* a loop body that acknowledges before it dispatches
DeliverAckFirst ==
    /\ pc = "receive"
    /\ Truthy(sub)
    /\ conns[sub.id].sub = "active"
    /\ Len(deliveries) < MaxMsgs
    /\ \E p \in Payloads : deliveries' = Append(deliveries, NewDelivery(p))
    /\ pc' = "ack"
    /\ UNCHANGED << stop_event, handler_path, subject, start_date, callback, nc,
                    sub, conns, disc, raised, resolutions >>
    /\ UNCHANGED << entry, date_arg >>

\* line 165: async for msg in self.sub.messages -- the next message arrives
Deliver ==
    /\ pc = "receive"
    /\ Truthy(sub)
    /\ conns[sub.id].sub = "active"
    /\ Len(deliveries) < MaxMsgs
    /\ \E p \in Payloads : deliveries' = Append(deliveries, NewDelivery(p))
    /\ pc' = "callback"
    /\ UNCHANGED << stop_event, handler_path, subject, start_date, callback, nc,
                    sub, conns, disc, raised, resolutions >>
    /\ UNCHANGED << entry, date_arg >>

\* line 166: wrapped_callback(msg), lines 150-159
WrappedCallback ==
    /\ pc = "callback"
    /\ LET n == Len(deliveries)
           r == wrapped_callback(callback, deliveries[n].payload)
       IN  deliveries' = [deliveries EXCEPT
                            ![n].result = r.result,
                            ![n].calls = @ + r.calls,
                            ![n].handler = IF r.calls > 0 THEN callback ELSE @]
    /\ pc' = "ack"
    /\ UNCHANGED << stop_event, handler_path, subject, start_date, callback, nc,
                    sub, conns, disc, raised, resolutions >>
    /\ UNCHANGED << entry, date_arg >>

\* a loop that logs a failed ack and carries on
AckSwallow ==
    /\ pc = "ack"
    /\ \E ok \in BOOLEAN :
         deliveries' = [deliveries EXCEPT ![Len(deliveries)].ack =
                           IF ok THEN "acked" ELSE "failed"]
    /\ pc' = "receive"
    /\ UNCHANGED << stop_event, handler_path, subject, start_date, callback, nc,
                    sub, conns, disc, raised, resolutions >>
    /\ UNCHANGED << entry, date_arg >>

\* line 167: await msg.ack()
Ack ==
    /\ pc = "ack"
    /\ \E ok \in BOOLEAN :
         IF ok
           THEN /\ deliveries' = [deliveries EXCEPT ![Len(deliveries)].ack = "acked"]
                /\ pc' = "receive"
                /\ raised' = raised
           ELSE /\ deliveries' = [deliveries EXCEPT ![Len(deliveries)].ack = "failed"]
                /\ pc' = "raised"
                /\ raised' = "AckError"
    /\ UNCHANGED << stop_event, handler_path, subject, start_date, callback, nc,
                    sub, conns, disc, resolutions >>
    /\ UNCHANGED << entry, date_arg >>

\* line 165: the message iterator of self.sub is exhausted
FeedEnd ==
    /\ pc = "receive"
    /\ Truthy(sub)
    /\ conns[sub.id].sub # "active"
    /\ pc' = "loop"
    /\ UNCHANGED << stop_event, handler_path, subject, start_date, callback, nc,
                    sub, conns, deliveries, disc, raised, resolutions >>
    /\ UNCHANGED << entry, date_arg >>

---------------------------------------------------------------------------
(* _disconnect, lines 106-119 *)

\* lines 109-114: await self.sub.unsubscribe(), then if self.nc:
UnsubscribeDone ==
    /\ pc = "unsubscribing"
    /\ \E ok \in BOOLEAN :
         IF ok
           THEN /\ sub' = NoneHandle
                /\ conns' = [conns EXCEPT ![sub.id].sub = "unsubscribed"]
                /\ IF Truthy(nc)
                     THEN /\ disc' = [disc EXCEPT !.unsub = "ok", !.closes = @ + 1]
                          /\ pc' = "closing"
                     ELSE /\ disc' = [disc EXCEPT !.unsub = "ok", !.close = "skipped"]
                          /\ pc' = "done"
           ELSE \* the exception leaves the try block: line 118-119
                /\ disc' = [disc EXCEPT !.unsub = "failed", !.logged = @ + 1]
                /\ pc' = "done"
                /\ UNCHANGED << sub, conns >>
    /\ UNCHANGED << stop_event, handler_path, subject, start_date, callback, nc,
                    deliveries, raised, resolutions >>
    /\ UNCHANGED << entry, date_arg >>

\* lines 114-119: await self.nc.close()
CloseDone ==
    /\ pc = "closing"
    /\ \E ok \in BOOLEAN :
         IF ok
           THEN /\ nc' = NoneHandle
                /\ conns' = [conns EXCEPT ![nc.id].status = "closed",
                                          ![nc.id].sub = IF @ = "active" THEN "ended" ELSE @]
                /\ disc' = [disc EXCEPT !.close = "ok"]
           ELSE /\ disc' = [disc EXCEPT !.close = "failed", !.logged = @ + 1]
                /\ UNCHANGED << nc, conns >>
    /\ pc' = "done"
    /\ UNCHANGED << stop_event, handler_path, subject, start_date, callback, sub,
                    deliveries, raised, resolutions >>
    /\ UNCHANGED << entry, date_arg >>

---------------------------------------------------------------------------
(* The signal handler and the lifecycle callbacks *)

\* a signal handler that gives up on the second signal
SignalEscalates ==
    /\ Running
    /\ stop_event' = TRUE
    /\ pc' = IF stop_event THEN "raised" ELSE pc
    /\ UNCHANGED << handler_path, subject, start_date, callback, nc, sub,
                    conns, deliveries, disc, raised, resolutions >>
    /\ UNCHANGED << entry, date_arg >>

\* lines 123-125: signal_handler (SIGINT or SIGTERM, any number of times)
Signal ==
    /\ Running
    /\ stop_event' = TRUE
    /\ UNCHANGED << pc, handler_path, subject, start_date, callback, nc, sub,
                    conns, deliveries, disc, raised, resolutions >>
    /\ UNCHANGED << entry, date_arg >>

\* lines 130-132: _on_error
OnError ==
    /\ Running
    /\ \E c \in ConnIds : conns[c].status \in { "connecting", "connected" }
    /\ stop_event' = TRUE
    /\ UNCHANGED << pc, handler_path, subject, start_date, callback, nc, sub,
                    conns, deliveries, disc, raised, resolutions >>
    /\ UNCHANGED << entry, date_arg >>

\* a connection the library still drives: its callbacks can be called
Live(c) == conns[c].status \in { "connecting", "connected" }

\* a disconnected callback that treats the loss of the server as fatal
OnDisconnectedSetsFlag ==
    /\ Running
    /\ \E c \in ConnIds : Live(c)
    /\ stop_event' = TRUE
    /\ UNCHANGED << pc, handler_path, subject, start_date, callback, nc, sub,
                    conns, deliveries, disc, raised, resolutions >>
    /\ UNCHANGED << entry, date_arg >>

\* lines 134-135: _on_disconnected -- logs, touches nothing
OnDisconnected ==
    /\ Running
    /\ \E c \in ConnIds : Live(c)
    /\ UNCHANGED vars

\* a reconnected callback that resumes consumption by clearing the flag
OnReconnectedClears ==
    /\ Running
    /\ \E c \in ConnIds : Live(c)
    /\ stop_event' = FALSE
    /\ UNCHANGED << pc, handler_path, subject, start_date, callback, nc, sub,
                    conns, deliveries, disc, raised, resolutions >>
    /\ UNCHANGED << entry, date_arg >>

\* lines 137-138: _on_reconnected -- logs, touches nothing
OnReconnected ==
    /\ Running
    /\ \E c \in ConnIds : Live(c)
    /\ UNCHANGED vars

\* the library closes a connection for good: its feed ends and its closed
\* callback is due
ConnClose ==
    /\ Running
    /\ \E c \in LatestConn :
         /\ conns[c].status = "connected"
         /\ conns' = [conns EXCEPT
                        ![c].status = "closed",
                        ![c].closedCb = "pending",
                        ![c].dropKind = IF conns[c].sub = "active" THEN "closed" ELSE @,
                        ![c].sub = IF @ = "active" THEN "ended" ELSE @]
    /\ UNCHANGED << pc, stop_event, handler_path, subject, start_date, callback,
                    nc, sub, deliveries, disc, raised, resolutions >>
    /\ UNCHANGED << entry, date_arg >>

\* lines 140-142: _on_closed
OnClosed ==
    /\ Running
    /\ \E c \in ConnIds :
         /\ conns[c].closedCb = "pending"
         /\ conns' = [conns EXCEPT ![c].closedCb = "ran"]
    /\ stop_event' = TRUE
    /\ UNCHANGED << pc, handler_path, subject, start_date, callback, nc, sub,
                    deliveries, disc, raised, resolutions >>
    /\ UNCHANGED << entry, date_arg >>

\* the subscription of a live connection is closed: its feed ends
SubEnd ==
    /\ Running
    /\ \E c \in LatestConn :
         /\ conns[c].sub = "active"
         /\ conns[c].status = "connected"
         /\ conns' = [conns EXCEPT ![c].sub = "ended", ![c].dropKind = "sub"]
    /\ UNCHANGED << pc, stop_event, handler_path, subject, start_date, callback,
                    nc, sub, deliveries, disc, raised, resolutions >>
    /\ UNCHANGED << entry, date_arg >>

---------------------------------------------------------------------------
LoopStep ==
    \/ Start
    \/ Resolve
    \/ LoopCheck
    \/ ConnectEstablish
    \/ Subscribe
    \/ WrappedCallback
    \/ Ack
    \/ FeedEnd
    \/ UnsubscribeDone
    \/ CloseDone

Next ==
    \/ Start
    \/ Resolve
    \/ LoopCheck
    \/ ConnectEstablish
    \/ Subscribe
    \/ Deliver
    \/ WrappedCallback
    \/ Ack
    \/ FeedEnd
    \/ UnsubscribeDone
    \/ CloseDone
    \/ Signal
    \/ OnError
    \/ OnDisconnected
    \/ OnReconnected
    \/ ConnClose
    \/ OnClosed
    \/ SubEnd

Spec == Init /\ [][Next]_vars

\* cli.start_listener line 46, Command.handle line 33:
\* parsed_start_date = parse_start_date(start_date), then
\* asyncio.run(client.start_consuming(subject, start_date=parsed_start_date))
ParseStartDate ==
    /\ pc = "entry"
    /\ LET r == parse_start_date(date_arg)
       IN  IF r.ok
             THEN /\ start_date' = r.value
                  /\ pc' = "idle"
                  /\ raised' = raised
             ELSE /\ start_date' = start_date
                  /\ pc' = "raised"
                  /\ raised' = InvalidDateError(entry)
    /\ UNCHANGED << stop_event, handler_path, subject, callback, nc, sub, conns,
                    deliveries, disc, resolutions, entry, date_arg >>

\* a run begun by one of the two entry points with a start-date argument
DateInit ==
    /\ pc = "entry"
    /\ entry \in { "cli", "django" }
    /\ date_arg \in DateArgs
    /\ start_date = NoneDate
    /\ stop_event = FALSE
    /\ handler_path \in HandlerPaths
    /\ subject \in Subjects
    /\ callback = "none"
    /\ nc = Unset
    /\ sub = Unset
    /\ conns = << >>
    /\ deliveries = << >>
    /\ disc = NoDisc
    /\ raised = "none"
    /\ resolutions = 0

\* the start of the run, up to the first subscription
DateNext ==
    \/ ParseStartDate
    \/ Start
    \/ Resolve
    \/ LoopCheck
    \/ ConnectEstablish
    \/ Subscribe
    \/ Signal

DateSpec == DateInit /\ [][DateNext]_vars

\* The event loop runs the coroutine whenever it can take a step, and every
\* await of a library call completes (with a result or an exception).  Nothing
\* obliges the broker to deliver a message or end a feed, or a signal to arrive.
FairSpec == Spec /\ WF_vars(LoopStep)

---------------------------------------------------------------------------
(* Properties *)

Last == deliveries[Len(deliveries)]

DeliveryIds == 1 .. Len(deliveries)

\* wrapped_callback logged an error for the message instead of completing it
PerMessageError(d) == d.result \in { "invalid_json", "error_logged", "handler_raised" }

\* the ack step of delivery i is over and did not raise
AckStepOver(i) == deliveries[i].ack = "acked"

\* C1: a delivered message with a well-formed JSON payload is acknowledged if
\* and only if its handler invocation returned without raising: never when the
\* handler raised, and always (once its ack step is over) when it returned.
C1_AckIffHandlerReturned ==
    \A i \in DeliveryIds :
        WellFormed(deliveries[i].payload) =>
            /\ deliveries[i].ack = "acked" => deliveries[i].result = "returned"
            /\ (deliveries[i].result = "returned" /\ i < Len(deliveries))
                  => deliveries[i].ack = "acked"

\* C2: for a delivered message whose payload fails JSON decoding the handler is
\* not invoked and the loop never acknowledges the message.
C2_MalformedNeverAcked ==
    \A i \in DeliveryIds :
        ~WellFormed(deliveries[i].payload) =>
            /\ deliveries[i].calls = 0
            /\ deliveries[i].ack # "acked"

\* C3: a per-message error (malformed payload or raising handler) never ends
\* the consume loop with an exception: the message being processed when an
\* exception leaves start_consuming is never one with a per-message error, so
\* after such a message the loop is still consuming.
C3_PerMessageErrorKeepsLoop ==
    ~ ( /\ pc = "raised"
        /\ deliveries # << >>
        /\ Last.ack # "acked"
        /\ PerMessageError(Last) )

\* C4: dispatch is serialized process-then-ack: the handler is invoked at most
\* once per delivery, a message's acknowledgment is never attempted before
\* wrapped_callback (and so the handler invocation) for it is over, and a
\* message is taken from the feed only when the ack step of every earlier
\* message is over (at most one message in flight).
C4_ProcessThenAck ==
    /\ \A i \in DeliveryIds : deliveries[i].calls <= 1
    /\ \A i \in DeliveryIds : deliveries[i].ack # "none" => deliveries[i].result # "pending"
    /\ \A i \in DeliveryIds : i < Len(deliveries) => AckStepOver(i)
    /\ pc \in { "callback", "ack" } => (deliveries # << >> /\ Last.ack = "none")

\* a second message is received, handled by the handler, and acknowledged
C4_Witness ==
    /\ Len(deliveries) >= 2
    /\ Last.calls = 1
    /\ Last.ack = "acked"
    /\ pc = "receive"

\* C5: once the shutdown flag is set, the run of start_consuming eventually
\* ends (the claim: it leaves CONSUMING, disconnects and returns normally),
\* also when the feed stays open after the flag was set.
C5_ShutdownEndsRun == stop_event ~> (pc \in { "done", "raised" })

\* C6: every connect call of the loop, the first one and every reconnect,
\* starts in a state where the shutdown flag is clear.
C6_NoConnectAfterShutdown ==
    \A c \in ConnIds : ~conns[c].flagAtStart

\* after a reconnect the flag is set, and the loop polls it and enters
\* _disconnect instead of connecting a third time
C6_Witness ==
    /\ Len(conns) = 2
    /\ stop_event
    /\ disc.calls = 1

\* C7: when the feed ends with the flag clear the loop connects again with the
\* same subject, start time and durable name; when the drop sets the flag (the
\* connection is closed for good: its feed ends and its closed callback sets
\* the flag, in either order) the loop makes no reconnect after that drop.
C7_DropWithFlagNeverReconnects ==
    /\ \A c \in ConnIds :
          /\ conns[c].subject = subject
          /\ conns[c].start_time = start_date
          /\ conns[c].durable = Durable
    /\ \A c \in ConnIds :
          (conns[c].dropKind = "closed" /\ conns[c].closedCb = "ran")
              => Len(conns) = c

\* the three ways a reference fails to resolve, and the reference without a dot
Unresolvable(path) ==
    \/ Len(path) < 2
    \/ SubSeq(path, 1, Len(path) - 1) \notin ModulePaths
    \/ ~GetAttr(SubSeq(path, 1, Len(path) - 1), path[Len(path)]).ok
    \/ ~GetAttr(SubSeq(path, 1, Len(path) - 1), path[Len(path)]).callable

\* C8: the handler is resolved once per run and before the first connect; an
\* unresolvable reference makes start_consuming fail with the resolution error
\* (ValueError) with no connect attempt and no message consumed; every handler
\* invocation, also after a reconnect, uses the handler resolved at startup.
C8_ResolveOnceBeforeConnect ==
    /\ resolutions <= 1
    /\ conns # << >> => (resolutions = 1 /\ callback # "none")
    /\ (Unresolvable(handler_path) /\ pc \notin { "idle", "resolve" })
          => /\ pc = "raised"
             /\ raised = "ValueError"
             /\ callback = "none"
             /\ conns = << >>
             /\ deliveries = << >>
    /\ \A c \in ConnIds : conns[c].handlerAtStart = callback
    /\ \A i \in DeliveryIds :
          deliveries[i].calls > 0 =>
              /\ deliveries[i].handler = callback
              /\ deliveries[i].handler =
                    GetAttr(SubSeq(handler_path, 1, Len(handler_path) - 1),
                            handler_path[Len(handler_path)]).handler

\* a reference to an attribute that exists but is not callable has failed
C8_Witness ==
    /\ handler_path = << "app", "handlers", "VERSION" >>
    /\ pc = "raised"
    /\ raised = "ValueError"
    /\ resolutions = 1

\* C9: every subscription created by connect uses explicit acknowledgment and
\* one delivery mode: by_start_time with the given timestamp when a start time
\* was supplied, new otherwise; the mode is the same on every connect attempt.
C9_DeliveryPolicy ==
    /\ \A c \in ConnIds :
          conns[c].sub # "none" =>
              /\ conns[c].cfg.ack_policy = "explicit"
              /\ conns[c].cfg.filter_subject = FilterSubject
              /\ IF start_date = NoneDate
                   THEN /\ conns[c].cfg.deliver_policy = "new"
                        /\ conns[c].cfg.opt_start_time = NoneDate
                   ELSE /\ conns[c].cfg.deliver_policy = "by_start_time"
                        /\ conns[c].cfg.opt_start_time = start_date
    /\ \A c1, c2 \in ConnIds :
          (conns[c1].sub # "none" /\ conns[c2].sub # "none")
              => conns[c1].cfg.deliver_policy = conns[c2].cfg.deliver_policy

\* a reconnect has created a second subscription in a run with a start time
C9_Witness ==
    /\ Len(conns) = 2
    /\ conns[1].sub # "none"
    /\ conns[2].sub = "active"
    /\ start_date # NoneDate

\* C10: in _disconnect, when a subscription and a (still open) connection are
\* both held and unsubscribe fails, closing the connection is still attempted.
C10_CloseAttemptedAfterUnsubscribeFails ==
    ( /\ pc = "done"
      /\ disc.subHeld
      /\ disc.ncHeld
      /\ disc.unsub = "failed"
      /\ Truthy(nc)
      /\ conns[nc.id].status = "connected" )
        => disc.close \in { "ok", "failed" }

\* the failures _disconnect met: the missing attribute, unsubscribe, close
DisconnectFailures ==
    (IF disc.calls = 1 /\ ~disc.subHeld /\ disc.unsub = "none" THEN 1 ELSE 0)
    + (IF disc.unsub = "failed" THEN 1 ELSE 0)
    + (IF disc.close = "failed" THEN 1 ELSE 0)

\* C11: _disconnect never raises to its caller: whichever handles are held
\* (both, one, or none because no connect succeeded) and whichever step fails,
\* the failure is logged and start_consuming goes on to return normally.
C11_DisconnectNeverRaises ==
    /\ disc.calls >= 1 =>
          /\ pc \in { "unsubscribing", "closing", "done" }
          /\ raised = "none"
    /\ pc = "done" =>
          /\ disc.calls = 1
          /\ disc.logged = DisconnectFailures

\* the flag was set before any connect succeeded: _disconnect finds no
\* handles, logs the failure and start_consuming has returned
C11_Witness ==
    /\ pc = "done"
    /\ sub.kind = "unset"
    /\ disc.logged = 1
    /\ raised = "none"

\* C12: the shutdown flag is clear initially and, once set, stays set in every
\* later state: no step of the client or of its callbacks clears it.
C12_FlagMonotonic ==
    /\ (pc = "idle" => ~stop_event)
    /\ [][stop_event => stop_event']_vars

\* the flag is set and the run went on through _disconnect to its end
C12_Witness ==
    /\ stop_event
    /\ pc = "done"
    /\ disc.close = "ok"

\* C13: setting the flag is idempotent: a signal or an error callback arriving
\* when the flag is already set changes nothing, a closed callback then changes
\* nothing the loop reads; _disconnect is performed at most once per run and
\* unsubscribe and close are each attempted at most once.
C13_ShutdownIdempotent ==
    /\ [](disc.calls <= 1 /\ disc.unsubs <= 1 /\ disc.closes <= 1)
    /\ [][(stop_event /\ (Signal \/ OnError)) => UNCHANGED vars]_vars
    /\ [][(stop_event /\ OnClosed) =>
            UNCHANGED << pc, stop_event, callback, nc, sub, deliveries, disc,
                         raised >>]_vars

\* two closed callbacks (of the first connection and of the reconnect) have
\* set the flag, and the run ended after one _disconnect
C13_Witness ==
    /\ Len(conns) = 2
    /\ conns[1].closedCb = "ran"
    /\ conns[2].closedCb = "ran"
    /\ pc = "done"
    /\ disc.calls = 1

\* the string is a calendar date written YYYY-MM-DD
ValidDate(arg) ==
    /\ arg.given
    /\ Len(arg.parts) = 3
    /\ \A i \in 1..3 : arg.parts[i].numeric
    /\ arg.parts[1].digits = 4 /\ arg.parts[1].value >= 1
    /\ arg.parts[2].digits = 2 /\ arg.parts[2].value \in 1..12
    /\ arg.parts[3].digits = 2
    /\ arg.parts[3].value \in 1 .. DaysInMonth(arg.parts[1].value,
                                                arg.parts[2].value)

\* C14: the start date is parsed before any connect; for every valid
\* YYYY-MM-DD string the start time handed to the consumer is UTC midnight of
\* that date, and for every invalid string the start fails with the entry
\* point's invalid-date error and no connect is ever begun, in the command-line
\* entry point and in the framework command.
C14_ParseBeforeConnect ==
    /\ pc = "entry" => conns = << >>
    /\ (entry # "api" /\ pc # "entry" /\ ValidDate(date_arg)) =>
          /\ start_date = DateTime(date_arg.parts[1].value,
                                   date_arg.parts[2].value,
                                   date_arg.parts[3].value, "utc")
          /\ raised # InvalidDateError(entry)
          /\ \A c \in ConnIds : conns[c].start_time = start_date
    /\ (entry # "api" /\ pc # "entry" /\ date_arg.given /\ ~ValidDate(date_arg)) =>
          /\ pc = "raised"
          /\ raised = InvalidDateError(entry)
          /\ conns = << >>

\* C15: _on_error and _on_closed set the flag and raise nothing into
\* start_consuming (its position, its exception and the handles are as
\* before); _on_disconnected and _on_reconnected leave the flag and the held
\* handles unchanged.
C15_CallbackEffects ==
    /\ [][OnError => (stop_event' /\ UNCHANGED << pc, raised, nc, sub >>)]_vars
    /\ [][OnClosed => (stop_event' /\ UNCHANGED << pc, raised, nc, sub >>)]_vars
    /\ [][OnDisconnected => UNCHANGED << stop_event, nc, sub >>]_vars
    /\ [][OnReconnected => UNCHANGED << stop_event, nc, sub >>]_vars

\* the closed callback of the held connection has run while the loop waits
\* for a message: the flag is set, the handles are held, nothing was raised
C15_Witness ==
    /\ pc = "receive"
    /\ Truthy(nc)
    /\ conns[nc.id].closedCb = "ran"
    /\ stop_event
    /\ raised = "none"

\* C16: a failed connect attempt (connection establishment or subscription
\* creation) is re-raised to the caller of start_consuming and is the last
\* attempt of the run: the loop does not retry.
C16_ConnectFailurePropagates ==
    \A c \in ConnIds :
        (conns[c].status = "failed" \/ conns[c].sub = "failed") =>
            /\ c = Len(conns)
            /\ pc = "raised"
            /\ raised = "ConnectError"

\* a reconnect has failed and the run has ended with its error
C16_Witness ==
    /\ Len(conns) = 2
    /\ conns[2].status = "failed"
    /\ pc = "raised"

\* C17: on every path by which start_consuming ends after it entered
\* CONNECTING (shutdown, failed connect or reconnect, an error while
\* consuming), _disconnect has been invoked before it ends.  Stated for the
\* runs in which a connection was opened, where there is something to release.
C17_DisconnectBeforeEnd ==
    ( /\ pc \in { "done", "raised" }
      /\ \E c \in ConnIds : conns[c].status # "failed" )
        => disc.calls >= 1

OpenConns == { c \in ConnIds : conns[c].status = "connected" }

ActiveSubs == { c \in ConnIds : conns[c].sub = "active" }

\* C18: at most one connection is open and at most one subscription active at
\* any time (after a reconnect the previous ones are no longer open), and a
\* final _disconnect whose two steps succeed leaves none of them open.
C18_SingleLiveConnection ==
    /\ Cardinality(OpenConns) <= 1
    /\ Cardinality(ActiveSubs) <= 1
    /\ (pc = "done" /\ disc.unsub = "ok" /\ disc.close = "ok")
          => (OpenConns = {} /\ ActiveSubs = {})

\* C19: when the ack of a message raises, the exception leaves
\* start_consuming: that message is the last one dispatched, no reconnect is
\* begun, _disconnect is not invoked and both handles stay held.
C19_AckFailurePropagates ==
    \A i \in DeliveryIds :
        deliveries[i].ack = "failed" =>
            /\ i = Len(deliveries)
            /\ pc = "raised"
            /\ raised = "AckError"
            /\ disc.calls = 0
            /\ Truthy(nc) /\ nc.id = Len(conns)
            /\ Truthy(sub) /\ sub.id = Len(conns)

\* the ack of the second message has raised
C19_Witness ==
    /\ Len(deliveries) = 2
    /\ Last.ack = "failed"
    /\ pc = "raised"

\* the handles recorded before connect attempt c
HandleBefore(c) == IF c = 1 THEN Unset ELSE Handle(c - 1)

\* C20: when connection establishment succeeds and subscription creation
\* fails, the recorded handles are those from before the attempt, and the
\* connection just opened is not closed by the client (it is open, unless the
\* library itself closed it for good) and no handle for a later _disconnect
\* refers to it.
C20_ConnectAllOrNothing ==
    \A c \in ConnIds :
        conns[c].sub = "failed" =>
            /\ conns[c].status \in { "connected", "closed" }
            /\ conns[c].status = "closed" => conns[c].closedCb # "none"
            /\ nc = HandleBefore(c)
            /\ sub = HandleBefore(c)
            /\ disc.calls = 0
            /\ pc = "raised"

\* on a reconnect the connection was opened and the subscription failed: the
\* handles are still those of the first connection
C20_Witness ==
    /\ Len(conns) = 2
    /\ conns[2].status = "connected"
    /\ conns[2].sub = "failed"
    /\ nc = Handle(1)

===========================================================================
